---- MODULE Spec2Model ----
(***************************************************************************)
(* Model of the example scripts of the repository:                         *)
(*   src/advance/rag-agent/rag_chatbot.py                                  *)
(*       upsert_data_to_memory_store, setup_search_indexes,                *)
(*       search_documents                                                  *)
(*   src/advance/multi-agent-architecture/                                 *)
(*       multi_agent_system_with_agents_as_plugins.py   main               *)
(* The document store (a pymongo collection) is modelled by what the       *)
(* calls the code makes do: find_one by _id, insert_one with a unique      *)
(* _id, list_indexes/create_index, find with $text / $regex and limit.     *)
(* Every backend call has two outcomes, a return and a raise.              *)
(***************************************************************************)
EXTENDS Integers, Sequences, FiniteSets, TLC

VARIABLES
    collection,   \* the documents of the collection, in natural order
    origin,       \* history: origin[k] is the source item id collection[k] was built from
    data,         \* json.load(f): the batch of the data file
    callers,      \* the processes running upsert_data_to_memory_store
    pc,           \* pc[c]: position of caller c in upsert_data_to_memory_store
    idx,          \* idx[c]: enumerate index of the item being processed
    run,          \* run[c]: number of calls of upsert_data_to_memory_store started by c
    rep,          \* history of the current run of c: outcome sets of item indexes
    snap,         \* history: snap[c] is the collection when the current run of c started
    prevLost,     \* history: prevLost[c]: an insert_one of the previous run of c raised
    indexes,          \* the names of the indexes of the collection
    ipc,              \* position in setup_search_indexes
    existing_indexes, \* the local of that name
    ncalls,           \* number of calls of setup_search_indexes started
    created,          \* history: the create_index calls issued by the current call
    errs,             \* history: the OperationFailure errors raised to the current call
    isnap,            \* history: indexes when the current call started
    outcome,          \* how the last call ended: "returned" or "raised"
    query_term,   \* argument of search_documents
    limit,        \* argument of search_documents
    spc,          \* position in search_documents
    results,      \* the list search_documents returned
    queried,      \* history: the strategies whose find was issued, in order
    failedStrategies, \* history: the strategies whose find raised OperationFailure
    apc,          \* position in main of the multi-agent chat program
    agents,       \* the agents created on the service by this run of main
    deleteCalled, \* the agents delete_agent was called for
    turns,        \* number of chat turns answered
    sent,         \* history: <<>> or <<[input, agent]>>, the last message sent to an agent
    mainResult    \* how main ended: "running", "returned" or "raised"

ingestVars == <<collection, origin, data, callers, pc, idx, run, rep, snap, prevLost>>

indexVars == <<indexes, ipc, existing_indexes, ncalls, created, errs, isnap, outcome>>

searchVars == <<query_term, limit, spc, results, queried, failedStrategies>>

agentVars == <<apc, agents, deleteCalled, turns, sent, mainResult>>

vars == <<ingestVars, indexVars, searchVars, agentVars>>

----------------------------------------------------------------------------
(* Bounds of the model *)

MaxBatch == 3
MaxRuns == 2
MaxRaceBatch == 2
MaxRaceRuns == 1
MaxSetupCalls == 2
MaxQueryLen == 3
MaxLimit == 2
MaxTurns == 2

----------------------------------------------------------------------------
(* Text: a string is a sequence of characters *)

UpperCase == <<"A", "B", "C", "D", "E", "F", "G", "H", "I", "J", "K", "L", "M",
               "N", "O", "P", "Q", "R", "S", "T", "U", "V", "W", "X", "Y", "Z">>

LowerCase == <<"a", "b", "c", "d", "e", "f", "g", "h", "i", "j", "k", "l", "m",
               "n", "o", "p", "q", "r", "s", "t", "u", "v", "w", "x", "y", "z">>

\* str.lower() on one character
LowerChar(ch) ==
    IF \E k \in DOMAIN UpperCase : UpperCase[k] = ch
    THEN LowerCase[CHOOSE k \in DOMAIN UpperCase : UpperCase[k] = ch]
    ELSE ch

\* str.lower()
Lower(s) == [k \in DOMAIN s |-> LowerChar(s[k])]

\* p in s, for strings
Contains(s, p) ==
    \E i \in 0..(Len(s) - Len(p)) : SubSeq(s, i + 1, i + Len(p)) = p

\* The maximal runs of characters of s that are not in seps, in order
RECURSIVE Tokens(_, _)
Tokens(s, seps) ==
    IF s = <<>> THEN <<>>
    ELSE IF s[1] \in seps THEN Tokens(Tail(s), seps)
    ELSE LET stops == {k \in DOMAIN s : s[k] \in seps}
             n == IF stops = {} THEN Len(s)
                  ELSE (CHOOSE k \in stops : \A j \in stops : k <= j) - 1
         IN <<SubSeq(s, 1, n)>> \o Tokens(SubSeq(s, n + 1, Len(s)), seps)

\* str.split(): the whitespace-separated words
Split(s) == Tokens(s, {" "})

\* str.strip(): without the leading and trailing whitespace
RECURSIVE Strip(_)
Strip(s) ==
    IF s = <<>> THEN s
    ELSE IF s[1] = " " THEN Strip(Tail(s))
    ELSE IF s[Len(s)] = " " THEN Strip(SubSeq(s, 1, Len(s) - 1))
    ELSE s

\* The elements of a sequence
Range(s) == {s[k] : k \in DOMAIN s}

----------------------------------------------------------------------------
(* The data file: items with id, title and content *)

Movies == {
    [id |-> 1, title |-> <<"a", "b">>,      content |-> <<"B", "a", " ", "a">>],
    [id |-> 2, title |-> <<"B">>,           content |-> <<"a", " ", "b">>],
    [id |-> 1, title |-> <<"a", "b", "a">>, content |-> <<"b">>] }

\* The input files: sequences of at most MaxBatch items
Batches == UNION {[1..n -> Movies] : n \in 0..MaxBatch}

\* A dictionary that has no "_id" key (pymongo then generates an ObjectId)
NoKey == 0

\* ObjectId(): a value no other document of the collection has
ObjectId(coll) == 0 - (Len(coll) + 1)

NewDocumentNoId(item) ==
    [_id |-> NoKey, title |-> item.title, content |-> item.content,
     category |-> "movie"]

\* rag_chatbot.py:39-44
NewDocument(item) ==
    [_id |-> item.id, title |-> item.title, content |-> item.content,
     category |-> "movie"]

\* The collections the store can hold: documents in natural order with
\* pairwise different _id (the unique _id index of the backend)
UniqueIds(coll) ==
    \A j, k \in DOMAIN coll : coll[j]._id = coll[k]._id => j = k

RECURSIVE SeqOfSet(_)
SeqOfSet(S) ==
    IF S = {} THEN <<>>
    ELSE LET m == CHOOSE x \in S :
                    \A y \in S : <<x.id, Len(x.title)>> = <<y.id, Len(y.title)>>
                                 \/ x.id < y.id
                                 \/ (x.id = y.id /\ Len(x.title) < Len(y.title))
         IN <<NewDocument(m)>> \o SeqOfSet(S \ {m})

\* The file two racing processes ingest
RaceBatches == UNION {[1..n -> Movies] : n \in 0..MaxRaceBatch}

InitialCollections ==
    {c \in {SeqOfSet(S) : S \in SUBSET Movies} : UniqueIds(c)}

----------------------------------------------------------------------------
(* The backend calls of upsert_data_to_memory_store *)

HasId(coll, id) == \E k \in DOMAIN coll : coll[k]._id = id

\* collection.find_one({"_id": id}): <<>> is None, <<doc>> a document
find_one(coll, id) ==
    IF HasId(coll, id)
    THEN <<coll[CHOOSE k \in DOMAIN coll : coll[k]._id = id]>>
    ELSE <<>>

\* The document insert_one stores: pymongo adds an ObjectId when the
\* dictionary has no "_id" key
Stored(coll, doc) ==
    IF doc._id = NoKey THEN [doc EXCEPT !._id = ObjectId(coll)] ELSE doc

\* insert_one raises DuplicateKeyError when the _id is taken
DuplicateKey(coll, doc) == HasId(coll, Stored(coll, doc)._id)

ExistsFromNever(existing_doc) == FALSE

\* rag_chatbot.py:49  exists = existing_doc is not None
ExistsFrom(existing_doc) == existing_doc # <<>>

LookupErrorExistsClosed == TRUE

\* rag_chatbot.py:50-52  exists = False when find_one raised
LookupErrorExists == FALSE

InsertErrorAborts(c) == "raised"

\* rag_chatbot.py:58-59  the insert error is printed and the loop goes on
InsertErrorNext(c) ==
    IF idx[c] = Len(data) THEN "done" ELSE "find"

\* The end of one iteration of the for loop at rag_chatbot.py:36
NextItem(c) == IF idx[c] = Len(data) THEN "done" ELSE "find"

NoReport == [lookupErr |-> {}, skipped |-> {}, inserted |-> {}, failed |-> {}]

\* insert_one was called for these items in the current run
Attempted(c) == rep[c].inserted \cup rep[c].failed

----------------------------------------------------------------------------
(* upsert_data_to_memory_store, one action per backend call *)

\* rag_chatbot.py:27-36  a call starts: the file is read and the loop entered
OpenFile(c) ==
    /\ c \in callers
    /\ pc[c] \in {"idle", "done"}
    /\ run[c] < (IF callers = {1} THEN MaxRuns ELSE MaxRaceRuns)
    /\ run' = [run EXCEPT ![c] = @ + 1]
    /\ idx' = [idx EXCEPT ![c] = 1]
    /\ pc' = [pc EXCEPT ![c] = IF data = <<>> THEN "done" ELSE "find"]
    /\ rep' = [rep EXCEPT ![c] = NoReport]
    /\ snap' = [snap EXCEPT ![c] = collection]
    /\ prevLost' = [prevLost EXCEPT ![c] = rep[c].failed # {}]
    /\ UNCHANGED <<collection, origin, data, callers>>
    /\ UNCHANGED <<indexVars, searchVars, agentVars>>

\* rag_chatbot.py:47-49, 54, 60-61  find_one returns
FindOneReturns(c) ==
    /\ c \in callers
    /\ pc[c] = "find"
    /\ LET existing_doc == find_one(collection, data[idx[c]].id)
           exists == ExistsFrom(existing_doc)
       IN IF exists
          THEN /\ rep' = [rep EXCEPT ![c].skipped = @ \cup {idx[c]}]
               /\ pc' = [pc EXCEPT ![c] = NextItem(c)]
               /\ idx' = [idx EXCEPT ![c] = IF idx[c] = Len(data) THEN @ ELSE @ + 1]
          ELSE /\ pc' = [pc EXCEPT ![c] = "insert"]
               /\ UNCHANGED <<rep, idx>>
    /\ UNCHANGED <<collection, origin, data, callers, run, snap, prevLost>>
    /\ UNCHANGED <<indexVars, searchVars, agentVars>>

\* rag_chatbot.py:50-52, 54  find_one raises
FindOneRaises(c) ==
    /\ c \in callers
    /\ pc[c] = "find"
    /\ LET exists == LookupErrorExists
       IN IF exists
          THEN /\ rep' = [rep EXCEPT ![c].skipped = @ \cup {idx[c]},
                                     ![c].lookupErr = @ \cup {idx[c]}]
               /\ pc' = [pc EXCEPT ![c] = NextItem(c)]
               /\ idx' = [idx EXCEPT ![c] = IF idx[c] = Len(data) THEN @ ELSE @ + 1]
          ELSE /\ rep' = [rep EXCEPT ![c].lookupErr = @ \cup {idx[c]}]
               /\ pc' = [pc EXCEPT ![c] = "insert"]
               /\ UNCHANGED idx
    /\ UNCHANGED <<collection, origin, data, callers, run, snap, prevLost>>
    /\ UNCHANGED <<indexVars, searchVars, agentVars>>

\* rag_chatbot.py:55-57  insert_one returns
InsertOneReturns(c) ==
    /\ c \in callers
    /\ pc[c] = "insert"
    /\ LET new_document == NewDocument(data[idx[c]])
       IN /\ ~DuplicateKey(collection, new_document)
          /\ collection' = Append(collection, Stored(collection, new_document))
          /\ origin' = Append(origin, data[idx[c]].id)
    /\ rep' = [rep EXCEPT ![c].inserted = @ \cup {idx[c]}]
    /\ pc' = [pc EXCEPT ![c] = NextItem(c)]
    /\ idx' = [idx EXCEPT ![c] = IF idx[c] = Len(data) THEN @ ELSE @ + 1]
    /\ UNCHANGED <<data, callers, run, snap, prevLost>>
    /\ UNCHANGED <<indexVars, searchVars, agentVars>>

\* rag_chatbot.py:55-59  insert_one raises (a duplicate _id, or any other error)
InsertOneRaises(c) ==
    /\ c \in callers
    /\ pc[c] = "insert"
    /\ rep' = [rep EXCEPT ![c].failed = @ \cup {idx[c]}]
    /\ pc' = [pc EXCEPT ![c] = InsertErrorNext(c)]
    /\ idx' = [idx EXCEPT ![c] = IF idx[c] = Len(data) THEN @ ELSE @ + 1]
    /\ UNCHANGED <<collection, origin, data, callers, run, snap, prevLost>>
    /\ UNCHANGED <<indexVars, searchVars, agentVars>>

----------------------------------------------------------------------------
(* The indexes of the collection and setup_search_indexes.  A raise of a   *)
(* backend call is a pymongo OperationFailure, the error the server        *)
(* returns and the class the function handles.                             *)

\* The key of an index, as list_indexes reports it: (field, kind) pairs
IndexKey(name) ==
    CASE name = "_id_" -> <<<<"_id", "1">>>>
      [] name = "title_text_content_text" -> <<<<"_fts", "text">>, <<"_ftsx", "1">>>>
      [] name = "content_text" -> <<<<"_fts", "text">>, <<"_ftsx", "1">>>>
      [] name = "category_1" -> <<<<"category", "1">>>>
      [] name = "title_1" -> <<<<"title", "1">>>>

\* The name create_index gives the index of a key list
IndexName(keys) ==
    CASE keys = <<<<"title", "text">>, <<"content", "text">>>> -> "title_text_content_text"
      [] keys = <<<<"category", "1">>>> -> "category_1"
      [] keys = <<<<"title", "1">>>> -> "title_1"

IsTextKey(keys) == \E k \in DOMAIN keys : keys[k][2] = "text"

\* A collection has the _id index and at most one text index
IndexSets ==
    {S \cup {"_id_"} : S \in
        {T \in SUBSET {"title_text_content_text", "content_text", "category_1", "title_1"} :
            ~({"title_text_content_text", "content_text"} \subseteq T)}}

\* rag_chatbot.py:71  the indexes one of whose key fields has the value 'text'
TextIndexes(existing) ==
    {name \in existing : \E k \in DOMAIN IndexKey(name) : IndexKey(name)[k][2] = "text"}

\* create_index is refused when the collection has another text index
\* (the server's "exactly one text index" rule)
TextConflict(ixs, keys) ==
    /\ IsTextKey(keys)
    /\ \E name \in ixs : name # IndexName(keys) /\ IsTextKey(IndexKey(name))

\* The messages an OperationFailure of create_index can carry
CreateErrors(ixs, keys) ==
    IF TextConflict(ixs, keys) THEN {"ExactlyOneTextIndex"}
    ELSE {"other"}

\* rag_chatbot.py:96-100  both branches print and the function returns
OuterExcept(e) ==
    IF e = "ExactlyOneTextIndex" THEN "returned" ELSE "returned"

\* rag_chatbot.py:83-94  the regular indexes, in the order they are created
RegularKeys(step) ==
    IF step = "category" THEN <<<<"category", "1">>>> ELSE <<<<"title", "1">>>>

AfterRegular(step) == IF step = "category" THEN "title" ELSE "ended"

TextKeys == <<<<"title", "text">>, <<"content", "text">>>>

\* The state of setup_search_indexes before a call ("idle"), or where the
\* function is not run at all ("off")
IndexAt(ixs, at) ==
    /\ indexes = ixs
    /\ ipc = at
    /\ existing_indexes = {}
    /\ ncalls = 0
    /\ created = {}
    /\ errs = {}
    /\ isnap = ixs
    /\ outcome = "returned"

\* rag_chatbot.py:63-65  a call of setup_search_indexes starts
SetupStart ==
    /\ ipc \in {"idle", "ended"}
    /\ ncalls < MaxSetupCalls
    /\ ncalls' = ncalls + 1
    /\ ipc' = "list"
    /\ existing_indexes' = {}
    /\ created' = {}
    /\ errs' = {}
    /\ isnap' = indexes
    /\ outcome' = "returned"
    /\ UNCHANGED indexes
    /\ UNCHANGED <<ingestVars, searchVars, agentVars>>

\* rag_chatbot.py:67-73, 80-81  list_indexes returns
ListIndexesReturns ==
    /\ ipc = "list"
    /\ existing_indexes' = indexes
    /\ LET text_indexes == TextIndexes(indexes)
       IN ipc' = IF text_indexes = {} THEN "text" ELSE "category"
    /\ UNCHANGED <<indexes, ncalls, created, errs, isnap, outcome>>
    /\ UNCHANGED <<ingestVars, searchVars, agentVars>>

\* rag_chatbot.py:67, 96-100  list_indexes raises
ListIndexesRaises ==
    /\ ipc = "list"
    /\ errs' = errs \cup {<<"list", "other">>}
    /\ outcome' = OuterExcept("other")
    /\ ipc' = "ended"
    /\ UNCHANGED <<indexes, existing_indexes, ncalls, created, isnap>>
    /\ UNCHANGED <<ingestVars, searchVars, agentVars>>

\* rag_chatbot.py:75-79  create_index of the text index returns
CreateTextReturns ==
    /\ ipc = "text"
    /\ ~TextConflict(indexes, TextKeys)
    /\ indexes' = indexes \cup {IndexName(TextKeys)}
    /\ created' = created \cup {"text"}
    /\ ipc' = "category"
    /\ UNCHANGED <<existing_indexes, ncalls, errs, isnap, outcome>>
    /\ UNCHANGED <<ingestVars, searchVars, agentVars>>

\* rag_chatbot.py:75-78, 96-100  create_index of the text index raises
CreateTextRaises ==
    /\ ipc = "text"
    /\ \E e \in CreateErrors(indexes, TextKeys) :
          /\ errs' = errs \cup {<<"text", e>>}
          /\ outcome' = OuterExcept(e)
    /\ created' = created \cup {"text"}
    /\ ipc' = "ended"
    /\ UNCHANGED <<indexes, existing_indexes, ncalls, isnap>>
    /\ UNCHANGED <<ingestVars, searchVars, agentVars>>

\* rag_chatbot.py:84-86, 90-92  create_index of a regular index returns
CreateRegularReturns(step) ==
    /\ ipc = step
    /\ indexes' = indexes \cup {IndexName(RegularKeys(step))}
    /\ created' = created \cup {step}
    /\ ipc' = AfterRegular(step)
    /\ UNCHANGED <<existing_indexes, ncalls, errs, isnap, outcome>>
    /\ UNCHANGED <<ingestVars, searchVars, agentVars>>

\* rag_chatbot.py:87-88, 93-94  create_index of a regular index raises:
\* every OperationFailure is printed as "already exists" and the function goes on
CreateRegularRaises(step) ==
    /\ ipc = step
    /\ \E e \in CreateErrors(indexes, RegularKeys(step)) :
          errs' = errs \cup {<<step, e>>}
    /\ created' = created \cup {step}
    /\ ipc' = AfterRegular(step)
    /\ UNCHANGED <<indexes, existing_indexes, ncalls, isnap, outcome>>
    /\ UNCHANGED <<ingestVars, searchVars, agentVars>>

----------------------------------------------------------------------------
(* search_documents.  The three find calls are modelled by what the server *)
(* does with the filter; a raise of a find is a pymongo OperationFailure.  *)

\* The characters of a query; "(" alone is not a valid regular expression
QueryChars == {"a", "B", " ", "("}

Queries == UNION {[1..n -> QueryChars] : n \in 0..MaxQueryLen}

\* The documents of a searched collection
Library ==
    Movies \cup {[id |-> 3, title |-> <<"A">>, content |-> <<"b", " ", "a", "b">>]}

SearchCollections ==
    {c \in {SeqOfSet(S) : S \in SUBSET Library} : UniqueIds(c)}

\* cursor.limit(n): 0 is no limit, a negative n limits to -n
Limit(s, n) ==
    IF n = 0 THEN s
    ELSE LET m == IF n < 0 THEN 0 - n ELSE n
         IN SubSeq(s, 1, IF Len(s) < m THEN Len(s) ELSE m)

\* The words the text index and $search see: lower case, split at
\* everything that is not a letter
TextTerms(s) == Tokens(Lower(s), {" ", "("})

\* textScore: the number of indexed words of the document that are search terms
TextScore(doc, terms) ==
    Cardinality({k \in DOMAIN TextTerms(doc.title) : TextTerms(doc.title)[k] \in terms})
    + Cardinality({k \in DOMAIN TextTerms(doc.content) : TextTerms(doc.content)[k] \in terms})

\* sort([("score", {"$meta": "textScore"})]): descending score, ties in natural order
RECURSIVE SortByScore(_, _)
SortByScore(docs, terms) ==
    IF docs = <<>> THEN <<>>
    ELSE LET best == CHOOSE k \in DOMAIN docs :
                        \A j \in DOMAIN docs :
                            \/ TextScore(docs[k], terms) > TextScore(docs[j], terms)
                            \/ (TextScore(docs[k], terms) = TextScore(docs[j], terms) /\ k <= j)
         IN <<docs[best]>> \o
            SortByScore(SubSeq(docs, 1, best - 1) \o SubSeq(docs, best + 1, Len(docs)), terms)

\* A $regex the server rejects
RegexInvalid(pattern) == \E k \in DOMAIN pattern : pattern[k] = "("

\* {"$regex": pattern, "$options": "i"} on one field, for a pattern of plain characters
RegexMatches(pattern, field) == Contains(Lower(field), Lower(pattern))

\* rag_chatbot.py:108-111  find($text).sort(textScore).limit(limit)
TextQuery(coll, q, lim) ==
    LET terms == Range(TextTerms(q))
        Hit(doc) == TextScore(doc, terms) > 0
    IN Limit(SortByScore(SelectSeq(coll, Hit), terms), lim)

RegexQueryNoLimit(coll, q, lim) ==
    LET Hit(doc) == RegexMatches(q, doc.title) \/ RegexMatches(q, doc.content)
    IN SelectSeq(coll, Hit)

\* rag_chatbot.py:120-126  find($or of the regex on title and content).limit(limit)
RegexQuery(coll, q, lim) ==
    LET Hit(doc) == RegexMatches(q, doc.title) \/ RegexMatches(q, doc.content)
    IN Limit(SelectSeq(coll, Hit), lim)

\* rag_chatbot.py:133  keywords = query_term.lower().split()
Keywords(q) == Split(Lower(q))

\* rag_chatbot.py:134-145  find($or of every keyword regex on title and content).limit(limit)
KeywordQuery(coll, keywords, lim) ==
    LET Hit(doc) == \E k \in DOMAIN keywords :
                        \/ RegexMatches(keywords[k], doc.title)
                        \/ RegexMatches(keywords[k], doc.content)
    IN Limit(SelectSeq(coll, Hit), lim)

HasTextIndex == \E name \in indexes : IsTextKey(IndexKey(name))

TextHitNever(text_results) == FALSE

\* rag_chatbot.py:113  if text_results:
TextHit(text_results) == text_results # <<>>

\* The state of search_documents before a call ("idle"), or where the
\* function is not run at all ("off")
SearchAt(at) ==
    /\ query_term = <<>>
    /\ limit = 0
    /\ spc = at
    /\ results = <<>>
    /\ queried = <<>>
    /\ failedStrategies = {}

\* rag_chatbot.py:102-104  search_documents(collection, query_term, limit) is called
SearchCall(q, lim) ==
    /\ spc = "idle"
    /\ query_term' = q
    /\ limit' = lim
    /\ spc' = "text"
    /\ results' = <<>>
    /\ queried' = <<>>
    /\ failedStrategies' = {}
    /\ UNCHANGED <<ingestVars, indexVars, agentVars>>

\* rag_chatbot.py:107-115  the text search returns
TextSearchReturns ==
    /\ spc = "text"
    /\ HasTextIndex
    /\ queried' = Append(queried, "text")
    /\ LET text_results == TextQuery(collection, query_term, limit)
       IN IF TextHit(text_results)
          THEN results' = text_results /\ spc' = "returned"
          ELSE results' = results /\ spc' = "regex"
    /\ UNCHANGED <<query_term, limit, failedStrategies>>
    /\ UNCHANGED <<ingestVars, indexVars, agentVars>>

\* rag_chatbot.py:116-117  the text search raises (no text index, $text not
\* supported, or another server error): printed, and the function goes on
TextSearchRaises ==
    /\ spc = "text"
    /\ queried' = Append(queried, "text")
    /\ failedStrategies' = failedStrategies \cup {"text"}
    /\ spc' = "regex"
    /\ UNCHANGED <<query_term, limit, results>>
    /\ UNCHANGED <<ingestVars, indexVars, agentVars>>

\* rag_chatbot.py:120-135, 142, 151-152  the regex search returns
RegexSearchReturns ==
    /\ spc = "regex"
    /\ ~RegexInvalid(query_term)
    /\ queried' = Append(queried, "regex")
    /\ LET regex_results == RegexQuery(collection, query_term, limit)
           keyword_conditions == Keywords(query_term)
       IN IF regex_results # <<>>
          THEN results' = regex_results /\ spc' = "returned"
          ELSE IF keyword_conditions # <<>>
          THEN results' = results /\ spc' = "keyword"
          ELSE results' = <<>> /\ spc' = "returned"
    /\ UNCHANGED <<query_term, limit, failedStrategies>>
    /\ UNCHANGED <<ingestVars, indexVars, agentVars>>

\* rag_chatbot.py:121-126  the regex search raises (an invalid pattern, or
\* another server error): nothing catches it
RegexSearchRaises ==
    /\ spc = "regex"
    /\ queried' = Append(queried, "regex")
    /\ failedStrategies' = failedStrategies \cup {"regex"}
    /\ spc' = "raised"
    /\ UNCHANGED <<query_term, limit, results>>
    /\ UNCHANGED <<ingestVars, indexVars, agentVars>>

\* rag_chatbot.py:143-152  the keyword search returns
KeywordSearchReturns ==
    /\ spc = "keyword"
    /\ \A k \in DOMAIN Keywords(query_term) : ~RegexInvalid(Keywords(query_term)[k])
    /\ queried' = Append(queried, "keyword")
    /\ LET keyword_results == KeywordQuery(collection, Keywords(query_term), limit)
       IN results' = keyword_results
    /\ spc' = "returned"
    /\ UNCHANGED <<query_term, limit, failedStrategies>>
    /\ UNCHANGED <<ingestVars, indexVars, agentVars>>

\* rag_chatbot.py:143-145  the keyword search raises: nothing catches it
KeywordSearchRaises ==
    /\ spc = "keyword"
    /\ queried' = Append(queried, "keyword")
    /\ failedStrategies' = failedStrategies \cup {"keyword"}
    /\ spc' = "raised"
    /\ UNCHANGED <<query_term, limit, results>>
    /\ UNCHANGED <<ingestVars, indexVars, agentVars>>

----------------------------------------------------------------------------
(* main of multi_agent_system_with_agents_as_plugins.py *)

AgentNames == <<"BillingAgent", "RefundAgent", "TriageAgent">>

\* multi_agent_system_with_agents_as_plugins.py:89
billing_keywords == <<
    <<"b", "i", "l", "l", "i", "n", "g">>,
    <<"c", "h", "a", "r", "g", "e">>,
    <<"p", "a", "y", "m", "e", "n", "t">>,
    <<"f", "e", "e">>,
    <<"b", "i", "l", "l">>,
    <<"i", "n", "v", "o", "i", "c", "e">>,
    <<"s", "u", "b", "s", "c", "r", "i", "p", "t", "i", "o", "n">>>>

\* multi_agent_system_with_agents_as_plugins.py:90
refund_keywords == <<
    <<"r", "e", "f", "u", "n", "d">>,
    <<"r", "e", "t", "u", "r", "n">>,
    <<"m", "o", "n", "e", "y", " ", "b", "a", "c", "k">>,
    <<"r", "e", "i", "m", "b", "u", "r", "s", "e">>,
    <<"c", "a", "n", "c", "e", "l">>>>

\* The lines the user types
UserInputs == {
    <<"e", "x", "i", "t">>,
    <<" ", "E", "X", "I", "T", " ">>,
    <<"e", "x", "i", "t", " ", "n", "o", "w">>,
    <<"h", "i">>,
    <<"B", "i", "l", "l">>,
    <<"c", "o", "f", "f", "e", "e">>,
    <<"r", "e", "f", "u", "n", "d">>,
    <<"R", "e", "f", "u", "n", "d", " ", "m", "y", " ", "b", "i", "l", "l">>,
    <<"m", "o", "n", "e", "y", " ", "b", "a", "c", "k">>,
    <<"m", "o", "n", "e", "y", "b", "a", "c", "k">>,
    <<"c", "a", "n", "c", "e", "l", " ", "o", "r", "d", "e", "r">>}

\* multi_agent_system_with_agents_as_plugins.py:81
IsExit(user_input) == Strip(Lower(user_input)) = <<"e", "x", "i", "t">>

\* The routing with the refund keywords tried before the billing keywords
AgentToUseRefundFirst(user_input) ==
    LET user_lower == Lower(user_input)
    IN IF \E k \in DOMAIN refund_keywords : Contains(user_lower, refund_keywords[k])
       THEN "RefundAgent"
       ELSE IF \E k \in DOMAIN billing_keywords : Contains(user_lower, billing_keywords[k])
       THEN "BillingAgent"
       ELSE "TriageAgent"

\* multi_agent_system_with_agents_as_plugins.py:86-101
AgentToUse(user_input) ==
    LET user_lower == Lower(user_input)
    IN IF \E k \in DOMAIN billing_keywords : Contains(user_lower, billing_keywords[k])
       THEN "BillingAgent"
       ELSE IF \E k \in DOMAIN refund_keywords : Contains(user_lower, refund_keywords[k])
       THEN "RefundAgent"
       ELSE "TriageAgent"

\* The position after the create_agent of AgentNames[k] returned
AfterCreate(k) ==
    IF k < Len(AgentNames) THEN <<"create", k + 1>> ELSE <<"loop", 0>>

\* multi_agent_system_with_agents_as_plugins.py:121-127  the position after
\* the delete_agent of AgentNames[k] returned
AfterDelete(k) ==
    IF k < Len(AgentNames) THEN <<"delete", k + 1>> ELSE <<"ended", 0>>

AgentsIdle ==
    /\ apc = <<"idle", 0>>
    /\ agents = {}
    /\ deleteCalled = {}
    /\ turns = 0
    /\ sent = <<>>
    /\ mainResult = "running"

\* multi_agent_system_with_agents_as_plugins.py:28-72  create_agent returns
CreateAgentReturns(k) ==
    /\ apc = <<"create", k>>
    /\ agents' = agents \cup {AgentNames[k]}
    /\ apc' = AfterCreate(k)
    /\ UNCHANGED <<deleteCalled, turns, sent, mainResult>>
    /\ UNCHANGED <<ingestVars, indexVars, searchVars>>

\* multi_agent_system_with_agents_as_plugins.py:28, 41, 54  create_agent
\* raises: the call is outside the try, the exception leaves main
CreateAgentRaises(k) ==
    /\ apc = <<"create", k>>
    /\ apc' = <<"ended", 0>>
    /\ mainResult' = "raised"
    /\ UNCHANGED <<agents, deleteCalled, turns, sent>>
    /\ UNCHANGED <<ingestVars, indexVars, searchVars>>

\* multi_agent_system_with_agents_as_plugins.py:79-83, 115-118  the user
\* types exit: break, then the finally block (thread is always None)
InputExit(user_input) ==
    /\ apc = <<"loop", 0>>
    /\ IsExit(user_input)
    /\ apc' = <<"delete", 1>>
    /\ UNCHANGED <<agents, deleteCalled, turns, sent, mainResult>>
    /\ UNCHANGED <<ingestVars, indexVars, searchVars>>

\* multi_agent_system_with_agents_as_plugins.py:79, 111-118  input() is
\* interrupted (KeyboardInterrupt) or fails (EOFError): caught, then finally
InputRaises ==
    /\ apc = <<"loop", 0>>
    /\ apc' = <<"delete", 1>>
    /\ UNCHANGED <<agents, deleteCalled, turns, sent, mainResult>>
    /\ UNCHANGED <<ingestVars, indexVars, searchVars>>

\* multi_agent_system_with_agents_as_plugins.py:79-109  a chat turn:
\* the input is routed and get_response returns
ChatTurn(user_input) ==
    /\ apc = <<"loop", 0>>
    /\ ~IsExit(user_input)
    /\ turns < MaxTurns
    /\ LET agent_to_use == AgentToUse(user_input)
       IN sent' = <<[input |-> user_input, agent |-> agent_to_use]>>
    /\ turns' = turns + 1
    /\ UNCHANGED <<apc, agents, deleteCalled, mainResult>>
    /\ UNCHANGED <<ingestVars, indexVars, searchVars>>

\* multi_agent_system_with_agents_as_plugins.py:104, 113-118  get_response
\* raises: caught by except Exception, then finally
ChatTurnRaises(user_input) ==
    /\ apc = <<"loop", 0>>
    /\ ~IsExit(user_input)
    /\ LET agent_to_use == AgentToUse(user_input)
       IN sent' = <<[input |-> user_input, agent |-> agent_to_use]>>
    /\ apc' = <<"delete", 1>>
    /\ UNCHANGED <<agents, deleteCalled, turns, mainResult>>
    /\ UNCHANGED <<ingestVars, indexVars, searchVars>>

\* multi_agent_system_with_agents_as_plugins.py:121-125  delete_agent returns
DeleteAgentReturns(k) ==
    /\ apc = <<"delete", k>>
    /\ deleteCalled' = deleteCalled \cup {AgentNames[k]}
    /\ apc' = AfterDelete(k)
    /\ mainResult' = IF k = Len(AgentNames) THEN "returned" ELSE mainResult
    /\ UNCHANGED <<agents, turns, sent>>
    /\ UNCHANGED <<ingestVars, indexVars, searchVars>>

\* multi_agent_system_with_agents_as_plugins.py:121-127  delete_agent
\* raises: except Exception prints, the later delete_agent calls are skipped
DeleteAgentRaises(k) ==
    /\ apc = <<"delete", k>>
    /\ deleteCalled' = deleteCalled \cup {AgentNames[k]}
    /\ apc' = <<"ended", 0>>
    /\ mainResult' = "returned"
    /\ UNCHANGED <<agents, turns, sent>>
    /\ UNCHANGED <<ingestVars, indexVars, searchVars>>

----------------------------------------------------------------------------
(* Specifications *)

Processes == {1, 2}

IngestInit(cs) ==
    /\ collection \in InitialCollections
    /\ origin = [k \in DOMAIN collection |-> collection[k]._id]
    /\ data \in IF cs = {1} THEN Batches ELSE RaceBatches
    /\ callers = cs
    /\ pc = [c \in Processes |-> "idle"]
    /\ idx = [c \in Processes |-> 1]
    /\ run = [c \in Processes |-> 0]
    /\ rep = [c \in Processes |-> NoReport]
    /\ snap = [c \in Processes |-> collection]
    /\ prevLost = [c \in Processes |-> FALSE]
    /\ IndexAt({"_id_"}, "off")
    /\ SearchAt("off")
    /\ AgentsIdle

IngestNext ==
    \E c \in Processes :
        \/ OpenFile(c)
        \/ FindOneReturns(c)
        \/ FindOneRaises(c)
        \/ InsertOneReturns(c)
        \/ InsertOneRaises(c)

\* One process calls upsert_data_to_memory_store, up to MaxRuns times in a row
InitIngest == IngestInit({1})
SpecIngest == InitIngest /\ [][IngestNext]_vars

\* Two processes run upsert_data_to_memory_store on the same file at once
InitRace == IngestInit(Processes)
SpecRace == InitRace /\ [][IngestNext]_vars

IndexInit ==
    /\ collection = <<>>
    /\ origin = <<>>
    /\ data = <<>>
    /\ callers = {}
    /\ pc = [c \in Processes |-> "idle"]
    /\ idx = [c \in Processes |-> 1]
    /\ run = [c \in Processes |-> 0]
    /\ rep = [c \in Processes |-> NoReport]
    /\ snap = [c \in Processes |-> <<>>]
    /\ prevLost = [c \in Processes |-> FALSE]
    /\ \E ixs \in IndexSets : IndexAt(ixs, "idle")
    /\ SearchAt("off")
    /\ AgentsIdle

IndexNext ==
    \/ SetupStart
    \/ ListIndexesReturns
    \/ ListIndexesRaises
    \/ CreateTextReturns
    \/ CreateTextRaises
    \/ \E step \in {"category", "title"} :
          \/ CreateRegularReturns(step)
          \/ CreateRegularRaises(step)

\* main calls setup_search_indexes (rag_chatbot.py:214), up to MaxSetupCalls times
SpecIndex == IndexInit /\ [][IndexNext]_vars

SearchInit ==
    /\ collection \in SearchCollections
    /\ origin = [k \in DOMAIN collection |-> collection[k]._id]
    /\ data = <<>>
    /\ callers = {}
    /\ pc = [c \in Processes |-> "idle"]
    /\ idx = [c \in Processes |-> 1]
    /\ run = [c \in Processes |-> 0]
    /\ rep = [c \in Processes |-> NoReport]
    /\ snap = [c \in Processes |-> <<>>]
    /\ prevLost = [c \in Processes |-> FALSE]
    /\ \E ixs \in {{"_id_"}, {"_id_", "title_text_content_text"}} : IndexAt(ixs, "off")
    /\ SearchAt("idle")
    /\ AgentsIdle

SearchNext ==
    \/ \E q \in Queries, lim \in 0..MaxLimit : SearchCall(q, lim)
    \/ TextSearchReturns
    \/ TextSearchRaises
    \/ RegexSearchReturns
    \/ RegexSearchRaises
    \/ KeywordSearchReturns
    \/ KeywordSearchRaises

\* search_documents is called on a collection, with or without the text index
SpecSearch == SearchInit /\ [][SearchNext]_vars

AgentsInit ==
    /\ collection = <<>>
    /\ origin = <<>>
    /\ data = <<>>
    /\ callers = {}
    /\ pc = [c \in Processes |-> "idle"]
    /\ idx = [c \in Processes |-> 1]
    /\ run = [c \in Processes |-> 0]
    /\ rep = [c \in Processes |-> NoReport]
    /\ snap = [c \in Processes |-> <<>>]
    /\ prevLost = [c \in Processes |-> FALSE]
    /\ IndexAt({"_id_"}, "off")
    /\ SearchAt("off")
    /\ apc = <<"create", 1>>
    /\ agents = {}
    /\ deleteCalled = {}
    /\ turns = 0
    /\ sent = <<>>
    /\ mainResult = "running"

AgentsNext ==
    \/ \E k \in DOMAIN AgentNames :
          \/ CreateAgentReturns(k)
          \/ CreateAgentRaises(k)
          \/ DeleteAgentReturns(k)
          \/ DeleteAgentRaises(k)
    \/ InputRaises
    \/ \E user_input \in UserInputs :
          \/ InputExit(user_input)
          \/ ChatTurn(user_input)
          \/ ChatTurnRaises(user_input)

\* One run of main of the multi-agent chat program
SpecAgents == AgentsInit /\ [][AgentsNext]_vars

Init == InitIngest \/ InitRace \/ IndexInit \/ SearchInit \/ AgentsInit

Next == IngestNext \/ IndexNext \/ SearchNext \/ AgentsNext

\* Every program of the repository, from each of its initial states
Spec == Init /\ [][Next]_vars

----------------------------------------------------------------------------
(* Claims about upsert_data_to_memory_store *)

\* Every item of the file has been handled by the current run of c
AllProcessed(c) ==
    rep[c].skipped \cup rep[c].inserted \cup rep[c].failed = DOMAIN data

\* C1 as stated: when the second run on the unchanged file ends, it has
\* inserted nothing and the collection equals the collection the first run
\* left.
C1_SecondRunInsertsNothing ==
    (pc[1] = "done" /\ run[1] = 2) =>
        /\ rep[1].inserted = {}
        /\ collection = snap[1]

\* C1 amended: when a run that follows another run on the unchanged file
\* ends, it has inserted no record whose id was stored when it started:
\* such a record is skipped when its lookup returned and counted failed
\* (insert_one rejects the duplicate _id) when its lookup raised.  Every
\* record it inserted has an id the previous run left absent, which happens
\* only when an insert_one of the previous run raised, and the collection
\* at its end is the collection at its start followed by exactly the
\* records it inserted.
C1_SecondRunInsertsOnlyAbsent ==
    (pc[1] = "done" /\ run[1] >= 2) =>
        /\ \A k \in DOMAIN data :
               HasId(snap[1], data[k].id) =>
                   /\ k \notin rep[1].inserted
                   /\ k \notin rep[1].lookupErr => k \in rep[1].skipped
                   /\ k \in rep[1].lookupErr => k \in rep[1].failed
        /\ (\E k \in DOMAIN data : ~HasId(snap[1], data[k].id)) => prevLost[1]
        /\ Len(collection) = Len(snap[1]) + Cardinality(rep[1].inserted)
        /\ SubSeq(collection, 1, Len(snap[1])) = snap[1]
        /\ {collection[j]._id : j \in Len(snap[1]) + 1 .. Len(collection)}
              = {data[k].id : k \in rep[1].inserted}

\* The second run skipped a stored record, was refused the insert of a
\* stored record whose lookup raised, and inserted the record the first run
\* had lost.
C1_Witness ==
    /\ pc[1] = "done" /\ run[1] = 2 /\ prevLost[1]
    /\ Len(data) = 3
    /\ rep[1].inserted # {}
    /\ rep[1].skipped # {}
    /\ \E k \in rep[1].lookupErr \cap rep[1].failed : HasId(snap[1], data[k].id)

\* C2: an insert that raises never aborts the batch: no exception leaves
\* the call, and when the call ends every record was handled and every
\* record whose insert did not raise has its id in the collection.
C2_PartialFailureContinues ==
    /\ pc[1] # "raised"
    /\ pc[1] = "done" =>
          /\ AllProcessed(1)
          /\ \A k \in DOMAIN data \ rep[1].failed :
                 HasId(collection, data[k].id)

C2_Witness ==
    /\ pc[1] = "done" /\ run[1] = 1
    /\ Len(data) = 3
    /\ rep[1].failed = {2}
    /\ rep[1].inserted = {1, 3}

\* C3: a lookup that raises counts as "absent": such a record is never
\* skipped, and when find_one raised for every record of the batch an
\* insert was attempted for every record, all of them inserted when no
\* insert raised, and no exception leaves the call.
C3_FailOpenLookup ==
    /\ pc[1] # "raised"
    /\ rep[1].lookupErr \cap rep[1].skipped = {}
    /\ (pc[1] = "done" /\ rep[1].lookupErr = DOMAIN data) =>
          /\ Attempted(1) = DOMAIN data
          /\ Cardinality(rep[1].inserted) = Len(data) - Cardinality(rep[1].failed)

C3_Witness ==
    /\ pc[1] = "done"
    /\ Len(data) >= 2
    /\ rep[1].lookupErr = DOMAIN data
    /\ rep[1].inserted = DOMAIN data

\* C9: whatever the interleaving of two processes ingesting the same file,
\* and whether or not a lookup failed open, no two documents of the
\* collection were built from the same item id.
C9_OneRecordPerId ==
    /\ Len(origin) = Len(collection)
    /\ \A j, k \in DOMAIN origin : origin[j] = origin[k] => j = k

\* Process 1 found the id absent and has not inserted yet, while process 2
\* has inserted a record of the same id in between.
C9_Witness ==
    /\ callers = Processes
    /\ pc[1] = "insert"
    /\ idx[1] \notin rep[1].lookupErr
    /\ \E k \in rep[2].inserted : data[k].id = data[idx[1]].id
    /\ HasId(collection, data[idx[1]].id)

----------------------------------------------------------------------------
(* Claims about setup_search_indexes *)

\* C6 as stated: a backend error that does not say "already exists",
\* raised while listing or creating indexes, leaves setup_search_indexes
\* as an error instead of being swallowed.
C6_OtherErrorsPropagate ==
    (ipc = "ended" /\ \E e \in errs : e[2] = "other") => outcome = "raised"

\* C7 as stated (second half): when the second of two calls in a row ends,
\* the set of indexes equals the set the first call left.
C7_SecondCallChangesNothing ==
    (ipc = "ended" /\ ncalls = 2) => indexes = isnap

----------------------------------------------------------------------------
(* Claims about search_documents *)

StrategyOrder == <<"text", "regex", "keyword">>

\* What the find of a strategy yields for the arguments of the current call
Yield(strategy) ==
    CASE strategy = "text" -> TextQuery(collection, query_term, limit)
      [] strategy = "regex" -> RegexQuery(collection, query_term, limit)
      [] strategy = "keyword" -> KeywordQuery(collection, Keywords(query_term), limit)

\* C4: the strategies are queried in the order text, regex, keyword; a
\* strategy is queried only when every earlier one raised or yielded
\* nothing; and a non-empty returned list is exactly what the last queried
\* strategy yielded.
C4_FirstNonEmptyStrategyWins ==
    /\ queried = SubSeq(StrategyOrder, 1, Len(queried))
    /\ \A k \in DOMAIN queried :
          (k < Len(queried)) =>
              \/ queried[k] \in failedStrategies
              \/ Yield(queried[k]) = <<>>
    /\ (spc = "returned" /\ results # <<>>) =>
          /\ queried[Len(queried)] \notin failedStrategies
          /\ results = Yield(queried[Len(queried)])

\* A text search yielded results, so the regex search, which would have
\* yielded a different non-empty list, was not queried
C4_Witness ==
    /\ spc = "returned" /\ queried = <<"text">>
    /\ Len(results) >= 2
    /\ RegexQuery(collection, query_term, limit) # <<>>
    /\ RegexQuery(collection, query_term, limit) # results

\* C5 as stated: an error reaches the caller of search_documents only when
\* every strategy failed with an error.
C5_QueryErrorsFallThrough ==
    spc = "raised" => failedStrategies = {"text", "regex", "keyword"}

\* C8: for a limit > 0 the returned list has at most limit elements.
C8_LimitEnforced ==
    (spc = "returned" /\ limit > 0) => Len(results) <= limit

\* More documents match than the limit allows
C8_Witness ==
    /\ spc = "returned" /\ limit = 2
    /\ queried = <<"text", "regex">>
    /\ Len(results) = 2
    /\ Len(RegexQuery(collection, query_term, 0)) > 2

----------------------------------------------------------------------------
(* Claims about main of the multi-agent chat program *)

\* C10 as stated: whenever main has ended, delete_agent has been called
\* for every agent that was created on the service.
C10_AgentsReleasedOnEveryExit ==
    apc = <<"ended", 0>> => agents \subseteq deleteCalled

(***************************************************************************)
(* Claims about chat-turn routing                                          *)
(***************************************************************************)

\* C11: a line handed to an agent is never "exit" after trimming and
\* lowercasing, and the agent that receives it is fixed by the line alone:
\* the billing agent when the lowercased line contains a billing keyword
\* (a refund keyword in the same line changes nothing), otherwise the refund
\* agent when it contains a refund keyword, otherwise the triage agent.
C11_RoutingPrecedence ==
    \A i \in DOMAIN sent :
        LET text == Lower(sent[i].input)
            billing == \E k \in DOMAIN billing_keywords :
                           Contains(text, billing_keywords[k])
            refund == \E k \in DOMAIN refund_keywords :
                          Contains(text, refund_keywords[k])
        IN /\ Strip(text) # <<"e", "x", "i", "t">>
           /\ sent[i].agent \in Range(AgentNames)
           /\ billing => sent[i].agent = "BillingAgent"
           /\ ~billing /\ refund => sent[i].agent = "RefundAgent"
           /\ ~billing /\ ~refund => sent[i].agent = "TriageAgent"

\* A line with a refund keyword and a billing keyword went to the billing agent
C11_Witness ==
    /\ sent # <<>>
    /\ sent[1].input =
           <<"R", "e", "f", "u", "n", "d", " ", "m", "y", " ", "b", "i", "l", "l">>
    /\ sent[1].agent = "BillingAgent"
    /\ turns > 0

====
